---- MODULE Spec2Model ----
(***************************************************************************)
(* Model of src/App.js, the single-screen catalogue of flower pots.        *)
(*                                                                         *)
(* State: the four useState cells of App (vasos, nomeVaso, localVaso,      *)
(* flores), the millisecond clock read by Date.now(), and the dialogs      *)
(* opened with Alert.alert that have not been answered yet.  `evento` is a *)
(* history variable: the handler that ran last.                            *)
(*                                                                         *)
(* Text is a sequence of one-character strings, so that trim() and         *)
(* split(',') are computed character by character as JavaScript does.      *)
(***************************************************************************)
EXTENDS Integers, Sequences, FiniteSets

VARIABLES vasos, nomeVaso, localVaso, flores, relogio, alertas, evento

vars == <<vasos, nomeVaso, localVaso, flores, relogio, alertas, evento>>

(* ------------------------------ bounds --------------------------------- *)

\* Longest catalogue explored.
MaxVasos == 2
\* Largest value of the millisecond clock explored.
MaxClock == 1
\* Most dialogs open (unanswered) at the same time.
MaxAlertas == 2

(* --------------------------- typed text -------------------------------- *)

\* What the user can type into each TextInput.
NomeInputs == { <<" ">>, <<" ", "a">> }
LocalInputs == { <<" ">>, <<"s">> }
FloresInputs == { <<"r", ",", " ", ",", "t">> }

(* ------------------------- String.prototype ---------------------------- *)

IsSpace(c) == c = " "

RECURSIVE TrimStart(_)
TrimStart(s) ==
    IF s = <<>> THEN s
    ELSE IF IsSpace(Head(s)) THEN TrimStart(Tail(s)) ELSE s

RECURSIVE TrimEnd(_)
TrimEnd(s) ==
    IF s = <<>> THEN s
    ELSE IF IsSpace(s[Len(s)]) THEN TrimEnd(SubSeq(s, 1, Len(s) - 1)) ELSE s

\* s.trim()
Trim(s) == TrimEnd(TrimStart(s))

\* s.split(','): the pieces between the commas, empty pieces included.
RECURSIVE Split(_)
Split(s) ==
    LET commas == { i \in DOMAIN s : s[i] = "," }
    IN  IF commas = {} THEN << s >>
        ELSE LET i == CHOOSE k \in commas : \A j \in commas : k <= j
             IN  << SubSeq(s, 1, i - 1) >> \o Split(SubSeq(s, i + 1, Len(s)))

(* ---------------------------- adicionarVaso ---------------------------- *)

\* The guard of adicionarVaso, with the trim forgotten.
camposVaziosSemTrim(n, l) == n = <<>> \/ l = <<>>

\* The guard of adicionarVaso, with the check of the location forgotten.
camposVaziosSoNome(n, l) == Trim(n) = <<>>

\* nomeVaso.trim() === '' || localVaso.trim() === ''
camposVazios(n, l) == Trim(n) = <<>> \/ Trim(l) = <<>>

\* flores.trim() ? flores.split(',').map(flor => flor.trim()) : []
parseFlores(f) ==
    IF Trim(f) # <<>>
    THEN [ i \in DOMAIN Split(f) |-> Trim(Split(f)[i]) ]
    ELSE <<>>

\* The object literal novoVaso; t is the value of Date.now().
novoVaso(n, l, f, t) ==
    [ id |-> t, nome |-> n, local |-> l, flores |-> parseFlores(f) ]

\* The new record put at the end of the list instead of the start.
inserirNoFim(v, vs) == Append(vs, v)

\* vasosAtuais => [novoVaso, ...vasosAtuais]
inserir(v, vs) == << v >> \o vs

(* ----------------------------- removerVaso ----------------------------- *)

RECURSIVE removerPrimeiro(_, _)
\* Removal of the first record with the id only (a findIndex/splice).
removerPrimeiro(vs, id) ==
    IF vs = <<>> THEN vs
    ELSE IF Head(vs).id = id THEN Tail(vs)
    ELSE << Head(vs) >> \o removerPrimeiro(Tail(vs), id)

RECURSIVE removerFiltro(_, _)
\* vasosAtuais.filter(vaso => vaso.id !== id)
removerFiltro(vs, id) ==
    IF vs = <<>> THEN vs
    ELSE IF Head(vs).id # id THEN << Head(vs) >> \o removerFiltro(Tail(vs), id)
    ELSE removerFiltro(Tail(vs), id)

(* ------------------------------ dialogs -------------------------------- *)

\* The id field of an entry that carries no id.
SemId == 0 - 1

\* Alert.alert('Atenção', ...): one default button, no callback.
AlertaAtencao == [ tipo |-> "atencao", id |-> SemId ]

\* Alert.alert("Remover Vaso", ...): the closure of onPress holds id.
AlertaRemover(id) == [ tipo |-> "remover", id |-> id ]

\* The list of open dialogs without the i-th.
fechar(as, i) == SubSeq(as, 1, i - 1) \o SubSeq(as, i + 1, Len(as))

\* The handler that ran, whether it repeats the one before it, and by how
\* much it changed the length of the catalogue.
Registo(op, id, d) ==
    [ op |-> op, id |-> id, repetido |-> (evento.op = op /\ evento.id = id),
      delta |-> d ]

(* ------------------------------- state --------------------------------- *)

Init ==
    /\ vasos = <<>>
    /\ nomeVaso = <<>>
    /\ localVaso = <<>>
    /\ flores = <<>>
    /\ relogio = 0
    /\ alertas = <<>>
    /\ evento = [ op |-> "inicio", id |-> SemId, repetido |-> FALSE, delta |-> 0 ]

\* Time passes: Date.now() returns a larger value from now on.
Tick ==
    /\ relogio < MaxClock
    /\ relogio' = relogio + 1
    /\ UNCHANGED <<vasos, nomeVaso, localVaso, flores, alertas, evento>>

\* onChangeText={setNomeVaso}
setNomeVaso(v) ==
    /\ nomeVaso' = v
    /\ evento' = Registo("setNomeVaso", SemId, 0)
    /\ UNCHANGED <<vasos, localVaso, flores, relogio, alertas>>

\* onChangeText={setLocalVaso}
setLocalVaso(v) ==
    /\ localVaso' = v
    /\ evento' = Registo("setLocalVaso", SemId, 0)
    /\ UNCHANGED <<vasos, nomeVaso, flores, relogio, alertas>>

\* onChangeText={setFlores}
setFlores(v) ==
    /\ flores' = v
    /\ evento' = Registo("setFlores", SemId, 0)
    /\ UNCHANGED <<vasos, nomeVaso, localVaso, relogio, alertas>>

\* adicionarVaso with the buffers cleared before the validation.
adicionarVasoLimpaAntes ==
    /\ IF camposVazios(nomeVaso, localVaso)
       THEN /\ Len(alertas) < MaxAlertas
            /\ alertas' = Append(alertas, AlertaAtencao)
            /\ vasos' = vasos
       ELSE /\ Len(vasos) < MaxVasos
            /\ vasos' = inserir(novoVaso(nomeVaso, localVaso, flores, relogio), vasos)
            /\ alertas' = alertas
    /\ nomeVaso' = <<>>
    /\ localVaso' = <<>>
    /\ flores' = <<>>
    /\ evento' = Registo("adicionarVaso", SemId, Len(vasos') - Len(vasos))
    /\ UNCHANGED relogio

\* onPress={adicionarVaso}
adicionarVaso ==
    /\ IF camposVazios(nomeVaso, localVaso)
       THEN /\ Len(alertas) < MaxAlertas
            /\ alertas' = Append(alertas, AlertaAtencao)
            /\ UNCHANGED <<vasos, nomeVaso, localVaso, flores>>
       ELSE /\ Len(vasos) < MaxVasos
            /\ vasos' = inserir(novoVaso(nomeVaso, localVaso, flores, relogio), vasos)
            /\ nomeVaso' = <<>>
            /\ localVaso' = <<>>
            /\ flores' = <<>>
            /\ alertas' = alertas
    /\ evento' = Registo("adicionarVaso", SemId, Len(vasos') - Len(vasos))
    /\ UNCHANGED relogio

\* removerVaso that filters at once, without asking.
removerVasoSemConfirmar(id) ==
    /\ \E i \in DOMAIN vasos : vasos[i].id = id
    /\ vasos' = removerFiltro(vasos, id)
    /\ evento' = Registo("removerVaso", id, Len(vasos') - Len(vasos))
    /\ UNCHANGED <<nomeVaso, localVaso, flores, relogio, alertas>>

\* onPress={() => removerVaso(item.id)} of a rendered row: opens the dialog.
removerVaso(id) ==
    /\ \E i \in DOMAIN vasos : vasos[i].id = id
    /\ Len(alertas) < MaxAlertas
    /\ alertas' = Append(alertas, AlertaRemover(id))
    /\ evento' = Registo("removerVaso", id, 0)
    /\ UNCHANGED <<vasos, nomeVaso, localVaso, flores, relogio>>

\* The button "Cancelar" of the i-th open dialog: no onPress.
cancelar(i) ==
    /\ i \in DOMAIN alertas
    /\ alertas[i].tipo = "remover"
    /\ alertas' = fechar(alertas, i)
    /\ evento' = Registo("cancelar", alertas[i].id, 0)
    /\ UNCHANGED <<vasos, nomeVaso, localVaso, flores, relogio>>

\* The button "Sim, Remover" of the i-th open dialog: its onPress.
confirmar(i) ==
    /\ i \in DOMAIN alertas
    /\ alertas[i].tipo = "remover"
    /\ vasos' = removerFiltro(vasos, alertas[i].id)
    /\ alertas' = fechar(alertas, i)
    /\ evento' = Registo("confirmar", alertas[i].id, Len(vasos') - Len(vasos))
    /\ UNCHANGED <<nomeVaso, localVaso, flores, relogio>>

\* The default button of the validation dialog.
dispensarAtencao(i) ==
    /\ i \in DOMAIN alertas
    /\ alertas[i].tipo = "atencao"
    /\ alertas' = fechar(alertas, i)
    /\ evento' = Registo("dispensarAtencao", SemId, 0)
    /\ UNCHANGED <<vasos, nomeVaso, localVaso, flores, relogio>>

Next ==
    \/ Tick
    \/ \E v \in NomeInputs : setNomeVaso(v)
    \/ \E v \in LocalInputs : setLocalVaso(v)
    \/ \E v \in FloresInputs : setFlores(v)
    \/ adicionarVaso
    \/ \E id \in 0..MaxClock : removerVaso(id)
    \/ \E i \in 1..MaxAlertas : cancelar(i)
    \/ \E i \in 1..MaxAlertas : confirmar(i)
    \/ \E i \in 1..MaxAlertas : dispensarAtencao(i)

Spec == Init /\ [][Next]_vars

(* ----------------------------- properties ------------------------------ *)

\* The step is an execution of the handler op (Tick alone moves the clock and
\* leaves evento as it is).
Passo(op) == evento'.op = op /\ relogio' = relogio /\ vars' # vars

Range(f) == { f[i] : i \in DOMAIN f }

Entradas == << nomeVaso, localVaso, flores >>

RECURSIVE IsSubseq(_, _)
\* a is b with some elements left out.
IsSubseq(a, b) ==
    \/ a = <<>>
    \/ /\ b # <<>>
       /\ IF Head(a) = Head(b) THEN IsSubseq(Tail(a), Tail(b))
          ELSE IsSubseq(a, Tail(b))

\* The tokens of f as the specification describes them: split on commas,
\* trimmed, the empty ones discarded.
TokensSemVazios(f) ==
    LET aparados == [ i \in DOMAIN Split(f) |-> Trim(Split(f)[i]) ]
        NaoVazio(t) == t # <<>>
    IN  SelectSeq(aparados, NaoVazio)

\* C1: no two records of the catalogue have the same id.
C1_IdsUnicos ==
    \A i, j \in DOMAIN vasos : i # j => vasos[i].id # vasos[j].id

\* C2: the flowers of a record created by a successful add are the trimmed
\* comma-separated tokens of the flowers buffer, in order, without the tokens
\* that are empty after trimming.
C2_FloresSemVazias ==
    [][ (Passo("adicionarVaso") /\ Len(vasos') > Len(vasos))
        => Head(vasos').flores = TokensSemVazios(flores) ]_vars

\* C3: a submit while the name or the location is empty after trimming opens
\* the validation prompt and leaves the catalogue and the three buffers as
\* they were.
C3_ValidacaoSemMutacao ==
    [][ (Passo("adicionarVaso") /\ (Trim(nomeVaso) = <<>> \/ Trim(localVaso) = <<>>))
        => /\ alertas' = Append(alertas, AlertaAtencao)
           /\ vasos' = vasos
           /\ Entradas' = Entradas ]_vars

\* A submit has just failed on a whitespace-only name, with a record in the
\* catalogue and the buffers still holding what was typed.
C3_Witness ==
    /\ evento.op = "adicionarVaso"
    /\ nomeVaso = << " " >>
    /\ localVaso = << "s" >>
    /\ flores # <<>>
    /\ alertas # <<>>
    /\ alertas[Len(alertas)] = AlertaAtencao
    /\ Len(vasos) >= 1

\* C4: a successful add prepends: the catalogue afterwards is the new record
\* followed by the previous catalogue, so the list is newest first.
C4_Prepend ==
    [][ (Passo("adicionarVaso") /\ Trim(nomeVaso) # <<>> /\ Trim(localVaso) # <<>>)
        => /\ Len(vasos') = Len(vasos) + 1
           /\ Tail(vasos') = vasos
           /\ Head(vasos').id = relogio
           /\ Head(vasos').nome = nomeVaso
           /\ Head(vasos').local = localVaso ]_vars

\* A second record has just been added in front of a different, older one.
C4_Witness ==
    /\ evento.op = "adicionarVaso"
    /\ Entradas = << <<>>, <<>>, <<>> >>
    /\ Len(vasos) = 2
    /\ vasos[1].id > vasos[2].id
    /\ vasos[1].flores # vasos[2].flores

\* C5: a confirmed remove of an id that is present takes exactly the one
\* record with that id out of the catalogue (length minus one, the others in
\* the same order); of an id that is absent it changes nothing.
C5_RemoveExatamenteUm ==
    [][ Passo("confirmar")
        => IF \E i \in DOMAIN vasos : vasos[i].id = evento'.id
           THEN /\ Len(vasos') = Len(vasos) - 1
                /\ \E i \in DOMAIN vasos :
                      vasos[i].id = evento'.id /\ vasos' = fechar(vasos, i)
           ELSE vasos' = vasos ]_vars

\* C6: remove is idempotent: a confirmed remove of the id that the handler
\* before it has just removed changes nothing.
C6_Idempotente ==
    [][ (Passo("confirmar") /\ evento'.repetido) => vasos' = vasos ]_vars

\* Two removes of the same id have just been confirmed in a row: no record has
\* that id any more, and a record added later is still there.
C6_Witness ==
    /\ evento.op = "confirmar"
    /\ evento.repetido
    /\ evento.delta = 0
    /\ vasos # <<>>
    /\ \A i \in DOMAIN vasos : vasos[i].id # evento.id
    /\ relogio > evento.id

\* C7: activating remove only opens a confirmation for the id of a row,
\* cancel only closes one, and a record leaves the catalogue only in a confirm
\* step of a confirmation that was open for that record's id.
C7_MaquinaDeRemocao ==
    [][ /\ Passo("removerVaso")
           => /\ vasos' = vasos
              /\ \E i \in DOMAIN vasos : vasos[i].id = evento'.id
              /\ alertas' = Append(alertas, AlertaRemover(evento'.id))
        /\ Passo("cancelar")
           => /\ vasos' = vasos
              /\ \E i \in DOMAIN alertas :
                    alertas[i] = AlertaRemover(evento'.id) /\ alertas' = fechar(alertas, i)
        /\ (Len(vasos') < Len(vasos) \/ ~(Range(vasos) \subseteq Range(vasos')))
           => /\ Passo("confirmar")
              /\ \E i \in DOMAIN alertas :
                    alertas[i] = AlertaRemover(evento'.id) /\ alertas' = fechar(alertas, i)
              /\ \A i \in DOMAIN vasos :
                    vasos[i].id # evento'.id => vasos[i] \in Range(vasos') ]_vars

\* A confirm has just taken a record out while a record of another id stayed.
C7_Witness ==
    /\ evento.op = "confirmar"
    /\ evento.delta = -1
    /\ Len(vasos) = 1
    /\ vasos[1].id # evento.id

\* C8: the buffers change only by an update of one field, which leaves the
\* other two and the catalogue alone, or by a successful submit, which empties
\* all three.
C8_BuffersSoMudam ==
    [][ /\ Entradas' # Entradas
           => \/ /\ Passo("setNomeVaso")
                 /\ UNCHANGED << localVaso, flores, vasos >>
              \/ /\ Passo("setLocalVaso")
                 /\ UNCHANGED << nomeVaso, flores, vasos >>
              \/ /\ Passo("setFlores")
                 /\ UNCHANGED << nomeVaso, localVaso, vasos >>
              \/ /\ Passo("adicionarVaso")
                 /\ Trim(nomeVaso) # <<>>
                 /\ Trim(localVaso) # <<>>
        /\ (Passo("adicionarVaso") /\ Len(vasos') > Len(vasos))
           => Entradas' = << <<>>, <<>>, <<>> >> ]_vars

\* A submit with all three buffers filled has just succeeded and emptied them.
C8_Witness ==
    /\ evento.op = "adicionarVaso"
    /\ Entradas = << <<>>, <<>>, <<>> >>
    /\ vasos # <<>>
    /\ Head(vasos).flores # <<>>
    /\ alertas # <<>>

\* C9: every record has a name and a location that are not empty and not
\* whitespace only, and the records of the catalogue keep their fields: after
\* a step the catalogue is the old one with records left out, or with one new
\* record in front.
C9_RegistosValidosEImutaveis ==
    /\ [](\A i \in DOMAIN vasos :
             Trim(vasos[i].nome) # <<>> /\ Trim(vasos[i].local) # <<>>)
    /\ [][ IF Len(vasos') > Len(vasos)
           THEN Tail(vasos') = vasos
           ELSE IsSubseq(vasos', vasos) ]_vars

\* A record whose name was typed with a leading blank has survived the removal
\* of another record.
C9_Witness ==
    /\ evento.op = "confirmar"
    /\ evento.delta < 0
    /\ Len(vasos) >= 1
    /\ Head(vasos).nome = << " ", "a" >>

\* C10: a confirm that comes directly after a successful add, which therefore
\* happened while the confirmation was open, keeps the record just added, and
\* takes at most one record out, none of another id.
C10_ConfirmarNoMaximoUm ==
    [][ (evento.op = "adicionarVaso" /\ evento.delta = 1 /\ Passo("confirmar"))
        => /\ Len(vasos) - Len(vasos') <= 1
           /\ vasos' # <<>>
           /\ Head(vasos') = Head(vasos)
           /\ \A i \in DOMAIN vasos :
                 vasos[i].id # evento'.id => vasos[i] \in Range(vasos') ]_vars

====
